---- MODULE Spec2Model ----
(***************************************************************************)
(* Model of the OVN route-agent Handler                                    *)
(* (pkg/routeagent_driver/handlers/ovn): the mutex-guarded remote-endpoint *)
(* map and gateway flag, the endpoint and gateway-transition callbacks,    *)
(* and the uninstall teardown of Stop.                                     *)
(*                                                                         *)
(* Every callback is split into the steps between which another goroutine  *)
(* can run: acquiring the mutex, each assignment to Handler state and each *)
(* blocking kernel call.  A kernel call may fail or succeed.               *)
(***************************************************************************)
EXTENDS Integers, Sequences, FiniteSets, TLC

\* ---------------------------------------------------------------- bounds
MaxRules == 2

\* the goroutines of the event framework that call into the Handler
Threads == {1, 2}

\* ------------------------------------------------------------- CIDR data
\* A CIDR "a.b.0.0/len" (len <= 16) is the record [a, b, len]; only the two
\* leading octets are kept, so an address is a*256+b.
Cidr(a, b, len) == [a |-> a, b |-> b, len |-> len]
FirstAddr(c) == c.a * 256 + c.b
LastAddr(c) == FirstAddr(c) + 2^(16 - c.len) - 1

\* cidr.IsOverlapping: two blocks overlap iff their address ranges intersect.
IsOverlapping(c, d) == FirstAddr(c) <= LastAddr(d) /\ FirstAddr(d) <= LastAddr(c)

\* HandlerConfig.ClusterCIDR / ServiceCIDR
ClusterCIDR == {Cidr(10, 0, 8)}
ServiceCIDR == {Cidr(100, 64, 16)}

\* cidr.OverlappingSubnets(serviceCIDR, clusterCIDR, subnets) # nil
OverlappingSubnets(serviceCidr, clusterCidr, subnets) ==
    \E k \in 1..Len(subnets) :
        \E c \in serviceCidr \cup clusterCidr : IsOverlapping(subnets[k], c)

\* ------------------------------------------------------------ the inputs
SubnetA == Cidr(172, 16, 12)
SubnetB == Cidr(192, 168, 16)
SubnetOverlap == Cidr(10, 1, 16)
SubnetLists == {<<SubnetA>>, <<SubnetA, SubnetB>>, <<SubnetOverlap>>}
Names == {"cluster-b", "cluster-c"}
\* submV1.Endpoint: the fields the handler reads
Endpoint == [Name : Names, Subnets : SubnetLists]

\* constants.RouteAgentInterClusterNetworkTableID, RouteAgentHostNetworkTableID
\* and one table the handler does not own
RouteAgentInterClusterNetworkTableID == "inter-cluster"
RouteAgentHostNetworkTableID == "host-network"
OtherTableID == "main"
TableIDs == {RouteAgentInterClusterNetworkTableID, RouteAgentHostNetworkTableID, OtherTableID}

RECURSIVE SeqsUpTo(_, _)
SeqsUpTo(S, n) ==
    IF n = 0 THEN {<<>>}
    ELSE LET shorter == SeqsUpTo(S, n - 1)
         IN  shorter \cup {Append(s, x) : s \in {q \in shorter : Len(q) = n - 1}, x \in S}

Range(s) == {s[k] : k \in 1..Len(s)}

\* ------------------------------------------------------------- the state
VARIABLES
    remoteEndpoints,   \* Handler.remoteEndpoints: name -> Endpoint
    isGateway,         \* Handler.isGateway
    mutex,             \* Handler.mutex: 0 when free, else the holding thread
    natRules,          \* subnets with a NAT-exemption rule applied in the kernel
    kernelRules,       \* the kernel's IPv4 policy-routing rules (their tables)
    pc,                \* per thread: the step its current call is at
    frame,             \* per thread: the locals of its current call
    expected,          \* history: last-writer-wins map of the accepted events
    anyError,          \* history: some call has returned an error
    cableRoutingInterface,      \* Handler.cableRoutingInterface, "nil" until set
    gatewayRouteController,     \* Handler.gatewayRouteController is set
    nonGatewayRouteController,  \* Handler.nonGatewayRouteController is set
    syncerStarted,              \* startRouteConfigSyncer has been called
    hist               \* history: the scenario being followed, if any

\* what Init and LocalEndpointCreated set
startup == <<cableRoutingInterface, gatewayRouteController, nonGatewayRouteController,
             syncerStarted>>

vars == <<remoteEndpoints, isGateway, mutex, natRules, kernelRules, pc, frame,
          expected, anyError, startup, hist>>

NoEndpoint == [Name |-> "", Subnets |-> <<>>]
\* map[string]*submV1.Endpoint{}
EmptyMap == [n \in {} |-> NoEndpoint]
EmptyFrame ==
    [method |-> "", endpoint |-> NoEndpoint, uninstall |-> FALSE,
     cur |-> <<>>, pending |-> {}, gw0 |-> FALSE,
     rules |-> <<>>, i |-> 0, log |-> <<>>, err |-> "nil",
     backend |-> "", iface |-> "nil"]

\* the policy-routing rules of a node the agent has been running on
NodeRules == <<RouteAgentInterClusterNetworkTableID, OtherTableID>>

\* NewHandler (lines 187-193): empty map, flag false, mutex free
NewHandler ==
    /\ remoteEndpoints = EmptyMap
    /\ isGateway = FALSE
    /\ mutex = 0
    /\ natRules = {}
    /\ pc = [t \in Threads |-> "idle"]
    /\ frame = [t \in Threads |-> EmptyFrame]
    /\ expected = EmptyMap
    /\ anyError = FALSE
    /\ cableRoutingInterface = "nil"
    /\ gatewayRouteController = FALSE
    /\ nonGatewayRouteController = FALSE
    /\ syncerStarted = FALSE

\* no scenario is followed
HistOff == [phase |-> "off"]

Init ==
    /\ NewHandler
    /\ kernelRules = NodeRules
    /\ hist = HistOff

\* a node with any rule list
InitStop ==
    /\ NewHandler
    /\ kernelRules \in SeqsUpTo(TableIDs, MaxRules)
    /\ hist = HistOff

\* ---------------------------------------------------------- map helpers
\* m[e.Name] = e
MapSet(m, e) == [n \in DOMAIN m \cup {e.Name} |-> IF n = e.Name THEN e ELSE m[n]]
\* delete(m, name)
MapDelete(m, name) == [n \in DOMAIN m \ {name} |-> m[n]]

Logged(t, op) == Append(frame[t].log, op)
\* a call of Stop, whose outcome Stop only logs
Op(kind, arg) == [op |-> kind, arg |-> arg]
\* a call of a callback, with whether it returned no error
Call(kind, arg, ok) == [op |-> kind, arg |-> arg, ok |-> ok]

\* return err: the step after which the deferred Unlock and the return run
Ret(t, f, e) ==
    /\ pc' = [pc EXCEPT ![t] = "ret"]
    /\ frame' = [frame EXCEPT ![t] = [f EXCEPT !.err = e]]

Goto(t, f, label) ==
    /\ pc' = [pc EXCEPT ![t] = label]
    /\ frame' = [frame EXCEPT ![t] = f]

\* ------------------------------------------------- kernel collaborators
\* iptables effect of addNoMasqueradeIPTables(subnet) when it succeeds
addNoMasqueradeIPTables(rules, subnet) == rules \cup {subnet}
\* iptables effect of removeNoMasqueradeIPTables(subnet) when it succeeds
removeNoMasqueradeIPTables(rules, subnet) == rules \ {subnet}

\* netlink.RuleDel: removes the first rule of that table from the kernel list
RECURSIVE RuleDel(_, _)
RuleDel(rules, table) ==
    IF rules = <<>> THEN <<>>
    ELSE IF Head(rules) = table THEN Tail(rules)
    ELSE <<Head(rules)>> \o RuleDel(Tail(rules), table)

\* the subnets advertised by the endpoints of a map
AllSubnets(m) == UNION {Range(m[n].Subnets) : n \in DOMAIN m}

\* -------------------------------------------------- the scenario followed
\* history only: which call is being followed, in which phase, and the handler
\* state recorded for it
Scenario(mode, phase, method, endpoint, set, gw, rules) ==
    [mode |-> mode, phase |-> phase, method |-> method, endpoint |-> endpoint,
     set |-> set, gw |-> gw, rules |-> rules]

HistFree(mode) == Scenario(mode, "free", "", NoEndpoint, EmptyMap, FALSE, {})

\* the calls whose redelivery is followed
Retried ==
    {"RemoteEndpointCreated", "RemoteEndpointRemoved", "TransitionToGateway", "TransitionToNonGateway"}

\* the state a call entered now leaves when every call it makes returns no
\* error: lines 283-297, 331-345, 355-363 and 371-379 without their error returns
SuccessOutcome(method, e) ==
    CASE method = "RemoteEndpointCreated" ->
             [set |-> MapSet(remoteEndpoints, e), gw |-> isGateway,
              rules |-> IF isGateway THEN natRules \cup Range(e.Subnets) ELSE natRules]
      [] method = "RemoteEndpointRemoved" ->
             [set |-> MapDelete(remoteEndpoints, e.Name), gw |-> isGateway,
              rules |-> IF isGateway THEN natRules \ Range(e.Subnets) ELSE natRules]
      [] method = "TransitionToGateway" ->
             [set |-> remoteEndpoints, gw |-> TRUE,
              rules |-> natRules \cup AllSubnets(remoteEndpoints)]
      [] method = "TransitionToNonGateway" ->
             [set |-> remoteEndpoints, gw |-> FALSE,
              rules |-> natRules \ AllSubnets(remoteEndpoints)]

\* the scenario once a call has taken the lock
AtLock(method, endpoint) ==
    IF hist.phase = "off" THEN hist
    ELSE IF hist.mode = "retry"
    THEN IF hist.phase = "failed" /\ hist.method = method /\ hist.endpoint = endpoint
         THEN [hist EXCEPT !.phase = "retry"]
         ELSE IF method \in Retried
         THEN LET o == SuccessOutcome(method, endpoint)
              IN  Scenario("retry", "first", method, endpoint, o.set, o.gw, o.rules)
         ELSE HistFree("retry")
    ELSE IF /\ hist.phase = "created"
            /\ method = "RemoteEndpointRemoved"
            /\ endpoint = hist.endpoint
         THEN [hist EXCEPT !.phase = "removing"]
         ELSE IF /\ method = "RemoteEndpointCreated"
                 /\ isGateway
                 /\ endpoint.Name \notin DOMAIN remoteEndpoints
         THEN Scenario("symmetry", "creating", method, endpoint, remoteEndpoints, isGateway, natRules)
         ELSE HistFree("symmetry")

\* the scenario once the call that holds the lock has returned
AtReturn(t) ==
    IF hist.phase = "off" \/ mutex # t THEN hist
    ELSE IF hist.phase \in {"first", "retry"}
    THEN IF frame[t].err = "nil" THEN HistFree(hist.mode) ELSE [hist EXCEPT !.phase = "failed"]
    ELSE IF hist.phase = "creating" /\ frame[t].err = "nil"
    THEN [hist EXCEPT !.phase = "created"]
    ELSE HistFree(hist.mode)

\* mutant: the call goes ahead without waiting for the mutex
Lock_NoWait(t, method, endpoint) ==
    /\ pc[t] = "idle"
    /\ mutex' = t
    /\ frame' = [frame EXCEPT ![t] = [EmptyFrame EXCEPT !.method = method,
                                         !.endpoint = endpoint, !.gw0 = isGateway]]
    /\ hist' = AtLock(method, endpoint)

\* ovn.mutex.Lock() at the start of a call
Lock(t, method, endpoint) ==
    /\ pc[t] = "idle"
    /\ mutex = 0
    /\ mutex' = t
    /\ frame' = [frame EXCEPT ![t] = [EmptyFrame EXCEPT !.method = method,
                                         !.endpoint = endpoint, !.gw0 = isGateway]]
    /\ hist' = AtLock(method, endpoint)

\* ------------------------------------------------- RemoteEndpointCreated
\* mutant: the lock is taken before the overlap check
RemoteEndpointCreated_LockFirst(t, endpoint) ==
    /\ Lock(t, "RemoteEndpointCreated", endpoint)
    /\ IF OverlappingSubnets(ServiceCIDR, ClusterCIDR, endpoint.Subnets)
       THEN /\ pc' = [pc EXCEPT ![t] = "ret"]
            /\ UNCHANGED expected
       ELSE /\ pc' = [pc EXCEPT ![t] = "created_set"]
            /\ expected' = MapSet(expected, endpoint)
    /\ UNCHANGED <<remoteEndpoints, isGateway, natRules, kernelRules, anyError, startup>>

\* lines 273-281: the overlap check, then Lock
RemoteEndpointCreated(t, endpoint) ==
    /\ pc[t] = "idle"
    /\ IF OverlappingSubnets(ServiceCIDR, ClusterCIDR, endpoint.Subnets)
       THEN /\ Ret(t, [EmptyFrame EXCEPT !.method = "RemoteEndpointCreated",
                                         !.endpoint = endpoint], "nil")
            /\ UNCHANGED <<mutex, expected, hist>>
       ELSE /\ Lock(t, "RemoteEndpointCreated", endpoint)
            /\ pc' = [pc EXCEPT ![t] = "created_set"]
            /\ expected' = MapSet(expected, endpoint)
    /\ UNCHANGED <<remoteEndpoints, isGateway, natRules, kernelRules, anyError, startup>>

\* line 283
Created_Set(t) ==
    /\ pc[t] = "created_set"
    /\ remoteEndpoints' = MapSet(remoteEndpoints, frame[t].endpoint)
    /\ Goto(t, frame[t], "created_host")
    /\ UNCHANGED <<isGateway, mutex, natRules, kernelRules, expected, anyError, startup, hist>>

\* what follows a successful updateHostNetworkDataplane in RemoteEndpointCreated
\* (line 290): the per-subnet loop in gateway role, else return nil
CreatedAfterHost(gw) == IF gw THEN "created_nat" ELSE "ret"

\* lines 285-290
Created_UpdateHostNetwork(t) ==
    /\ pc[t] = "created_host"
    /\ LET f(ok) == [frame[t] EXCEPT !.log = Logged(t, Call("updateHostNetworkDataplane", <<>>, ok))]
       IN  \/ Ret(t, f(FALSE), "updateHostNetworkDataplane returned error")
           \/ Goto(t, [f(TRUE) EXCEPT !.cur = frame[t].endpoint.Subnets], CreatedAfterHost(isGateway))
    /\ UNCHANGED <<remoteEndpoints, isGateway, mutex, natRules, kernelRules, expected, anyError, startup, hist>>

\* lines 291-295: one iteration of the subnet loop
Created_AddNoMasquerade(t) ==
    /\ pc[t] = "created_nat"
    /\ frame[t].cur # <<>>
    /\ LET subnet == Head(frame[t].cur)
           f(ok) == [frame[t] EXCEPT !.log = Logged(t, Call("addNoMasqueradeIPTables", subnet, ok))]
       IN  \/ /\ Ret(t, f(FALSE), "error adding no-masquerade rules")
              /\ UNCHANGED natRules
           \/ /\ natRules' = addNoMasqueradeIPTables(natRules, subnet)
              /\ Goto(t, [f(TRUE) EXCEPT !.cur = Tail(frame[t].cur)], "created_nat")
    /\ UNCHANGED <<remoteEndpoints, isGateway, mutex, kernelRules, expected, anyError, startup, hist>>

\* line 297
Created_UpdateGateway(t) ==
    /\ pc[t] = "created_nat"
    /\ frame[t].cur = <<>>
    /\ LET f(ok) == [frame[t] EXCEPT !.log = Logged(t, Call("updateGatewayDataplane", <<>>, ok))]
       IN  \/ Ret(t, f(FALSE), "updateGatewayDataplane returned error")
           \/ Ret(t, f(TRUE), "nil")
    /\ UNCHANGED <<remoteEndpoints, isGateway, mutex, natRules, kernelRules, expected, anyError, startup, hist>>

\* ------------------------------------------------- RemoteEndpointUpdated
\* mutant: no overlap check
RemoteEndpointUpdated_NoCheck(t, endpoint) ==
    /\ Lock(t, "RemoteEndpointUpdated", endpoint)
    /\ pc' = [pc EXCEPT ![t] = "updated_set"]
    /\ expected' = MapSet(expected, endpoint)
    /\ UNCHANGED <<remoteEndpoints, isGateway, natRules, kernelRules, anyError, startup>>

\* lines 304-311
RemoteEndpointUpdated(t, endpoint) ==
    /\ pc[t] = "idle"
    /\ IF OverlappingSubnets(ServiceCIDR, ClusterCIDR, endpoint.Subnets)
       THEN /\ Ret(t, [EmptyFrame EXCEPT !.method = "RemoteEndpointUpdated",
                                         !.endpoint = endpoint], "nil")
            /\ UNCHANGED <<mutex, expected, hist>>
       ELSE /\ Lock(t, "RemoteEndpointUpdated", endpoint)
            /\ pc' = [pc EXCEPT ![t] = "updated_set"]
            /\ expected' = MapSet(expected, endpoint)
    /\ UNCHANGED <<remoteEndpoints, isGateway, natRules, kernelRules, anyError, startup>>

\* line 313
Updated_Set(t) ==
    /\ pc[t] = "updated_set"
    /\ remoteEndpoints' = MapSet(remoteEndpoints, frame[t].endpoint)
    /\ Goto(t, frame[t], "updated_host")
    /\ UNCHANGED <<isGateway, mutex, natRules, kernelRules, expected, anyError, startup, hist>>

\* mutant: gateway reconciliation whatever the role
UpdatedAfterHost_Always(gw) == "updated_gw"

\* what follows a successful updateHostNetworkDataplane in RemoteEndpointUpdated
\* (line 320): straight to updateGatewayDataplane in gateway role
UpdatedAfterHost(gw) == IF gw THEN "updated_gw" ELSE "ret"

\* lines 315-320
Updated_UpdateHostNetwork(t) ==
    /\ pc[t] = "updated_host"
    /\ LET f(ok) == [frame[t] EXCEPT !.log = Logged(t, Call("updateHostNetworkDataplane", <<>>, ok))]
       IN  \/ Ret(t, f(FALSE), "updateHostNetworkDataplane returned error")
           \/ Goto(t, f(TRUE), UpdatedAfterHost(isGateway))
    /\ UNCHANGED <<remoteEndpoints, isGateway, mutex, natRules, kernelRules, expected, anyError, startup, hist>>

\* line 321
Updated_UpdateGateway(t) ==
    /\ pc[t] = "updated_gw"
    /\ LET f(ok) == [frame[t] EXCEPT !.log = Logged(t, Call("updateGatewayDataplane", <<>>, ok))]
       IN  \/ Ret(t, f(FALSE), "updateGatewayDataplane returned error")
           \/ Ret(t, f(TRUE), "nil")
    /\ UNCHANGED <<remoteEndpoints, isGateway, mutex, natRules, kernelRules, expected, anyError, startup, hist>>

\* ------------------------------------------------- RemoteEndpointRemoved
\* lines 328-329
RemoteEndpointRemoved(t, endpoint) ==
    /\ Lock(t, "RemoteEndpointRemoved", endpoint)
    /\ pc' = [pc EXCEPT ![t] = "removed_delete"]
    /\ expected' = MapDelete(expected, endpoint.Name)
    /\ UNCHANGED <<remoteEndpoints, isGateway, natRules, kernelRules, anyError, startup>>

\* mutant: the key is deleted in gateway role only
Removed_Delete_IfGateway(t) ==
    /\ pc[t] = "removed_delete"
    /\ remoteEndpoints' = IF isGateway THEN MapDelete(remoteEndpoints, frame[t].endpoint.Name)
                          ELSE remoteEndpoints
    /\ Goto(t, frame[t], "removed_host")
    /\ UNCHANGED <<isGateway, mutex, natRules, kernelRules, expected, anyError, startup, hist>>

\* line 331
Removed_Delete(t) ==
    /\ pc[t] = "removed_delete"
    /\ remoteEndpoints' = MapDelete(remoteEndpoints, frame[t].endpoint.Name)
    /\ Goto(t, frame[t], "removed_host")
    /\ UNCHANGED <<isGateway, mutex, natRules, kernelRules, expected, anyError, startup, hist>>

\* lines 333-338
Removed_UpdateHostNetwork(t) ==
    /\ pc[t] = "removed_host"
    /\ LET f(ok) == [frame[t] EXCEPT !.log = Logged(t, Call("updateHostNetworkDataplane", <<>>, ok))]
       IN  \/ Ret(t, f(FALSE), "updateHostNetworkDataplane returned error")
           \/ Goto(t, [f(TRUE) EXCEPT !.cur = frame[t].endpoint.Subnets],
                   IF isGateway THEN "removed_nat" ELSE "ret")
    /\ UNCHANGED <<remoteEndpoints, isGateway, mutex, natRules, kernelRules, expected, anyError, startup, hist>>

\* lines 339-343: one iteration of the subnet loop
Removed_RemoveNoMasquerade(t) ==
    /\ pc[t] = "removed_nat"
    /\ frame[t].cur # <<>>
    /\ LET subnet == Head(frame[t].cur)
           f(ok) == [frame[t] EXCEPT !.log = Logged(t, Call("removeNoMasqueradeIPTables", subnet, ok))]
       IN  \/ /\ Ret(t, f(FALSE), "error removing no-masquerade rules")
              /\ UNCHANGED natRules
           \/ /\ natRules' = removeNoMasqueradeIPTables(natRules, subnet)
              /\ Goto(t, [f(TRUE) EXCEPT !.cur = Tail(frame[t].cur)], "removed_nat")
    /\ UNCHANGED <<remoteEndpoints, isGateway, mutex, kernelRules, expected, anyError, startup, hist>>

\* line 345
Removed_UpdateGateway(t) ==
    /\ pc[t] = "removed_nat"
    /\ frame[t].cur = <<>>
    /\ LET f(ok) == [frame[t] EXCEPT !.log = Logged(t, Call("updateGatewayDataplane", <<>>, ok))]
       IN  \/ Ret(t, f(FALSE), "updateGatewayDataplane returned error")
           \/ Ret(t, f(TRUE), "nil")
    /\ UNCHANGED <<remoteEndpoints, isGateway, mutex, natRules, kernelRules, expected, anyError, startup, hist>>

\* ------------------------------------------------ TransitionToNonGateway
\* lines 352-353
TransitionToNonGateway(t) ==
    /\ Lock(t, "TransitionToNonGateway", NoEndpoint)
    /\ pc' = [pc EXCEPT ![t] = "tn_flag"]
    /\ UNCHANGED <<remoteEndpoints, isGateway, natRules, kernelRules, expected, anyError, startup>>

\* line 355, and the start of the range over the map (line 356)
\* mutant: a handler that is already in non-gateway role returns at once
ToNonGateway_SetFlag_SkipIfNonGateway(t) ==
    /\ pc[t] = "tn_flag"
    /\ isGateway' = FALSE
    /\ IF isGateway
       THEN Goto(t, [frame[t] EXCEPT !.pending = DOMAIN remoteEndpoints], "tn_range")
       ELSE Ret(t, frame[t], "nil")
    /\ UNCHANGED <<remoteEndpoints, mutex, natRules, kernelRules, expected, anyError, startup, hist>>

ToNonGateway_SetFlag(t) ==
    /\ pc[t] = "tn_flag"
    /\ isGateway' = FALSE
    /\ Goto(t, [frame[t] EXCEPT !.pending = DOMAIN remoteEndpoints], "tn_range")
    /\ UNCHANGED <<remoteEndpoints, mutex, natRules, kernelRules, expected, anyError, startup, hist>>

\* line 356: the range yields the next endpoint, in no particular order
ToNonGateway_NextEndpoint(t) ==
    /\ pc[t] = "tn_range"
    /\ frame[t].cur = <<>>
    /\ \E n \in frame[t].pending :
           Goto(t, [frame[t] EXCEPT !.pending = @ \ {n},
                                    !.cur = remoteEndpoints[n].Subnets], "tn_range")
    /\ UNCHANGED <<remoteEndpoints, isGateway, mutex, natRules, kernelRules, expected, anyError, startup, hist>>

\* lines 357-361: one iteration of the subnet loop
ToNonGateway_RemoveNoMasquerade(t) ==
    /\ pc[t] = "tn_range"
    /\ frame[t].cur # <<>>
    /\ LET subnet == Head(frame[t].cur)
           f(ok) == [frame[t] EXCEPT !.log = Logged(t, Call("removeNoMasqueradeIPTables", subnet, ok))]
       IN  \/ /\ Ret(t, f(FALSE), "error removing no-masquerade rules")
              /\ UNCHANGED natRules
           \/ /\ natRules' = removeNoMasqueradeIPTables(natRules, subnet)
              /\ Goto(t, [f(TRUE) EXCEPT !.cur = Tail(frame[t].cur)], "tn_range")
    /\ UNCHANGED <<remoteEndpoints, isGateway, mutex, kernelRules, expected, anyError, startup, hist>>

\* line 364
ToNonGateway_CleanupGateway(t) ==
    /\ pc[t] = "tn_range"
    /\ frame[t].cur = <<>>
    /\ frame[t].pending = {}
    /\ LET f(ok) == [frame[t] EXCEPT !.log = Logged(t, Call("cleanupGatewayDataplane", <<>>, ok))]
       IN  \/ Ret(t, f(FALSE), "cleanupGatewayDataplane returned error")
           \/ Ret(t, f(TRUE), "nil")
    /\ UNCHANGED <<remoteEndpoints, isGateway, mutex, natRules, kernelRules, expected, anyError, startup, hist>>

\* --------------------------------------------------- TransitionToGateway
\* lines 368-369
TransitionToGateway(t) ==
    /\ Lock(t, "TransitionToGateway", NoEndpoint)
    /\ pc' = [pc EXCEPT ![t] = "tg_flag"]
    /\ UNCHANGED <<remoteEndpoints, isGateway, natRules, kernelRules, expected, anyError, startup>>

\* mutant: the flag is left as it was when the range starts
ToGateway_SetFlag_Late(t) ==
    /\ pc[t] = "tg_flag"
    /\ Goto(t, [frame[t] EXCEPT !.pending = DOMAIN remoteEndpoints], "tg_range")
    /\ UNCHANGED <<remoteEndpoints, isGateway, mutex, natRules, kernelRules, expected, anyError, startup, hist>>

\* line 371, and the start of the range over the map (line 373)
ToGateway_SetFlag(t) ==
    /\ pc[t] = "tg_flag"
    /\ isGateway' = TRUE
    /\ Goto(t, [frame[t] EXCEPT !.pending = DOMAIN remoteEndpoints], "tg_range")
    /\ UNCHANGED <<remoteEndpoints, mutex, natRules, kernelRules, expected, anyError, startup, hist>>

\* line 373: the range yields the next endpoint, in no particular order
ToGateway_NextEndpoint(t) ==
    /\ pc[t] = "tg_range"
    /\ frame[t].cur = <<>>
    /\ \E n \in frame[t].pending :
           Goto(t, [frame[t] EXCEPT !.pending = @ \ {n},
                                    !.cur = remoteEndpoints[n].Subnets], "tg_range")
    /\ UNCHANGED <<remoteEndpoints, isGateway, mutex, natRules, kernelRules, expected, anyError, startup, hist>>

\* mutant: a failed add is skipped and the loop carries on
ToGateway_AddNoMasquerade_Continue(t) ==
    /\ pc[t] = "tg_range"
    /\ frame[t].cur # <<>>
    /\ LET subnet == Head(frame[t].cur)
           f(ok) == [frame[t] EXCEPT !.log = Logged(t, Call("addNoMasqueradeIPTables", subnet, ok))]
       IN  \/ /\ Goto(t, [f(FALSE) EXCEPT !.cur = Tail(frame[t].cur)], "tg_range")
              /\ UNCHANGED natRules
           \/ /\ natRules' = addNoMasqueradeIPTables(natRules, subnet)
              /\ Goto(t, [f(TRUE) EXCEPT !.cur = Tail(frame[t].cur)], "tg_range")
    /\ UNCHANGED <<remoteEndpoints, isGateway, mutex, kernelRules, expected, anyError, startup, hist>>

\* lines 374-378: one iteration of the subnet loop
ToGateway_AddNoMasquerade(t) ==
    /\ pc[t] = "tg_range"
    /\ frame[t].cur # <<>>
    /\ LET subnet == Head(frame[t].cur)
           f(ok) == [frame[t] EXCEPT !.log = Logged(t, Call("addNoMasqueradeIPTables", subnet, ok))]
       IN  \/ /\ Ret(t, f(FALSE), "error adding no-masquerade rules")
              /\ UNCHANGED natRules
           \/ /\ natRules' = addNoMasqueradeIPTables(natRules, subnet)
              /\ Goto(t, [f(TRUE) EXCEPT !.cur = Tail(frame[t].cur)], "tg_range")
    /\ UNCHANGED <<remoteEndpoints, isGateway, mutex, kernelRules, expected, anyError, startup, hist>>

\* line 381
ToGateway_UpdateGateway(t) ==
    /\ pc[t] = "tg_range"
    /\ frame[t].cur = <<>>
    /\ frame[t].pending = {}
    /\ LET f(ok) == [frame[t] EXCEPT !.log = Logged(t, Call("updateGatewayDataplane", <<>>, ok))]
       IN  \/ Ret(t, f(FALSE), "updateGatewayDataplane returned error")
           \/ Ret(t, f(TRUE), "nil")
    /\ UNCHANGED <<remoteEndpoints, isGateway, mutex, natRules, kernelRules, expected, anyError, startup, hist>>

\* ------------------------------------------------------------------ Stop
forwardingSubmarinerFWDChain == "forwardingSubmarinerFWDChain"
SmPostRoutingChain == "constants.SmPostRoutingChain"

\* mutant: the chain is deleted before it is cleared and unlinked
flushAndDeleteIPTableChains_DeleteFirst(table, tableChain, submarinerChain) ==
    << Op("DeleteChain", <<table, submarinerChain>>),
       Op("ClearChain", <<table, submarinerChain>>),
       Op("Delete", <<table, tableChain, submarinerChain>>) >>

\* flushAndDeleteIPTableChains(table, tableChain, submarinerChain): its three
\* iptables calls, in order
flushAndDeleteIPTableChains(table, tableChain, submarinerChain) ==
    << Op("ClearChain", <<table, submarinerChain>>),
       Op("Delete", <<table, tableChain, submarinerChain>>),
       Op("DeleteChain", <<table, submarinerChain>>) >>

\* lines 63-64
StopChainOps ==
    flushAndDeleteIPTableChains("constants.FilterTable", "constants.ForwardChain", forwardingSubmarinerFWDChain)
      \o flushAndDeleteIPTableChains("constants.NATTable", "constants.PostRoutingChain", SmPostRoutingChain)

\* mutant: Stop gives up at the first call that returns an error
OnStopError_Abort(next) == "ret"

\* where Stop goes when one of its calls returns an error: the error is
\* logged (klog.Errorf) and Stop carries on with the next call
OnStopError(next) == next

\* one best-effort call of Stop: it succeeds, or fails and is logged
StopStep(t, op, next) ==
    LET f == [frame[t] EXCEPT !.log = Logged(t, op)]
    IN  \/ Goto(t, f, next)
        \/ Goto(t, f, OnStopError(next))

\* lines 29-34
\* mutant: the uninstall runs whatever the argument
Stop_AlwaysUninstall(t, uninstall) ==
    /\ pc[t] = "idle"
    /\ LET f == [EmptyFrame EXCEPT !.method = "Stop", !.uninstall = uninstall]
       IN  Goto(t, f, "stop_port")
    /\ UNCHANGED <<remoteEndpoints, isGateway, mutex, natRules, kernelRules, expected, anyError, startup, hist>>

Stop(t, uninstall) ==
    /\ pc[t] = "idle"
    /\ LET f == [EmptyFrame EXCEPT !.method = "Stop", !.uninstall = uninstall]
       IN  IF ~uninstall THEN Ret(t, f, "nil") ELSE Goto(t, f, "stop_port")
    /\ UNCHANGED <<remoteEndpoints, isGateway, mutex, natRules, kernelRules, expected, anyError, startup, hist>>

\* lines 36-39
Stop_DelInternalPort(t) ==
    /\ pc[t] = "stop_port"
    /\ StopStep(t, Op("DelInternalPort", <<>>), "stop_bridge")
    /\ UNCHANGED <<remoteEndpoints, isGateway, mutex, natRules, kernelRules, expected, anyError, startup, hist>>

\* lines 41-44
Stop_DelBridge(t) ==
    /\ pc[t] = "stop_bridge"
    /\ StopStep(t, Op("DelBridge", <<>>), "stop_rulelist")
    /\ UNCHANGED <<remoteEndpoints, isGateway, mutex, natRules, kernelRules, expected, anyError, startup, hist>>

\* lines 46, 70-73: cleanupRoutes lists the rules; a listing error is returned
\* to Stop, which logs it (lines 47-49)
cleanupRoutes_RuleList(t) ==
    /\ pc[t] = "stop_rulelist"
    /\ LET f == [frame[t] EXCEPT !.log = Logged(t, Op("RuleList", <<>>))]
       IN  \/ Goto(t, f, OnStopError("stop_flush_inter"))
           \/ Goto(t, [f EXCEPT !.rules = kernelRules, !.i = 1], "stop_ruleloop")
    /\ UNCHANGED <<remoteEndpoints, isGateway, mutex, natRules, kernelRules, expected, anyError, startup, hist>>

\* line 76
\* mutant: every listed rule is taken for one of the handler's own
OwnsTable_Any(table) == TRUE

OwnsTable(table) ==
    table = RouteAgentInterClusterNetworkTableID \/ table = RouteAgentHostNetworkTableID

\* where cleanupRoutes goes after a failed RuleDel of rules[i] (lines 78-80):
\* it returns the error, so the loop is over
AfterRuleDelError(i, n) == n + 1

\* lines 75-82: one iteration of the loop over the listed rules
cleanupRoutes_Loop(t) ==
    /\ pc[t] = "stop_ruleloop"
    /\ frame[t].i <= Len(frame[t].rules)
    /\ LET i == frame[t].i
           table == frame[t].rules[i]
           f == [frame[t] EXCEPT !.log = Logged(t, Op("RuleDel", i))]
       IN  IF OwnsTable(table)
           THEN \/ /\ Goto(t, [f EXCEPT !.i = AfterRuleDelError(i, Len(frame[t].rules))],
                           "stop_ruleloop")
                   /\ UNCHANGED kernelRules
                \/ /\ table \in Range(kernelRules)
                   /\ kernelRules' = RuleDel(kernelRules, table)
                   /\ Goto(t, [f EXCEPT !.i = i + 1], "stop_ruleloop")
           ELSE /\ Goto(t, [frame[t] EXCEPT !.i = i + 1], "stop_ruleloop")
                /\ UNCHANGED kernelRules
    /\ UNCHANGED <<remoteEndpoints, isGateway, mutex, natRules, expected, anyError, startup, hist>>

\* lines 84, 47: cleanupRoutes returns to Stop
cleanupRoutes_Return(t) ==
    /\ pc[t] = "stop_ruleloop"
    /\ frame[t].i > Len(frame[t].rules)
    /\ Goto(t, frame[t], "stop_flush_inter")
    /\ UNCHANGED <<remoteEndpoints, isGateway, mutex, natRules, kernelRules, expected, anyError, startup, hist>>

\* lines 51-55
Stop_FlushInterCluster(t) ==
    /\ pc[t] = "stop_flush_inter"
    /\ StopStep(t, Op("FlushRouteTable", RouteAgentInterClusterNetworkTableID), "stop_flush_host")
    /\ UNCHANGED <<remoteEndpoints, isGateway, mutex, natRules, kernelRules, expected, anyError, startup, hist>>

\* lines 57-61, and the entry into the two flushAndDeleteIPTableChains calls
Stop_FlushHostNetwork(t) ==
    /\ pc[t] = "stop_flush_host"
    /\ LET op == Op("FlushRouteTable", RouteAgentHostNetworkTableID)
           f == [frame[t] EXCEPT !.log = Logged(t, op), !.cur = StopChainOps]
       IN  \/ Goto(t, f, "stop_chains")
           \/ Goto(t, f, OnStopError("stop_chains"))
    /\ UNCHANGED <<remoteEndpoints, isGateway, mutex, natRules, kernelRules, expected, anyError, startup, hist>>

\* lines 90-107: the next iptables call of flushAndDeleteIPTableChains
Stop_ChainOp(t) ==
    /\ pc[t] = "stop_chains"
    /\ frame[t].cur # <<>>
    /\ LET f == [frame[t] EXCEPT !.log = Logged(t, Head(frame[t].cur)),
                                 !.cur = Tail(frame[t].cur)]
       IN  \/ Goto(t, f, "stop_chains")
           \/ Goto(t, f, OnStopError("stop_chains"))
    /\ UNCHANGED <<remoteEndpoints, isGateway, mutex, natRules, kernelRules, expected, anyError, startup, hist>>

\* line 66
Stop_Return(t) ==
    /\ pc[t] = "stop_chains"
    /\ frame[t].cur = <<>>
    /\ Ret(t, frame[t], "nil")
    /\ UNCHANGED <<remoteEndpoints, isGateway, mutex, natRules, kernelRules, expected, anyError, startup, hist>>

\* ------------------------------------------------------------------ Init
\* lines 210-217: LegacyCleanup, which returns nothing
HandlerInit(t) ==
    /\ pc[t] = "idle"
    /\ Goto(t, [EmptyFrame EXCEPT !.method = "Init",
                                  !.log = <<Call("LegacyCleanup", <<>>, TRUE)>>], "init_chains")
    /\ UNCHANGED <<remoteEndpoints, isGateway, mutex, natRules, kernelRules, expected, anyError, startup, hist>>

\* mutant: a chain-setup failure is ignored and the initialization goes on
Init_IPtablesChains_Continue(t) ==
    /\ pc[t] = "init_chains"
    /\ \E ok \in BOOLEAN :
           Goto(t, [frame[t] EXCEPT !.log = Logged(t, Call("initIPtablesChains", <<>>, ok))],
                "init_syncer")
    /\ UNCHANGED <<remoteEndpoints, isGateway, mutex, natRules, kernelRules, expected, anyError, startup, hist>>

\* lines 213-216
Init_IPtablesChains(t) ==
    /\ pc[t] = "init_chains"
    /\ LET f(ok) == [frame[t] EXCEPT !.log = Logged(t, Call("initIPtablesChains", <<>>, ok))]
       IN  \/ Ret(t, f(FALSE), "initIPtablesChains returned error")
           \/ Goto(t, f(TRUE), "init_syncer")
    /\ UNCHANGED <<remoteEndpoints, isGateway, mutex, natRules, kernelRules, expected, anyError, startup, hist>>

\* line 218
Init_StartRouteConfigSyncer(t) ==
    /\ pc[t] = "init_syncer"
    /\ syncerStarted' = TRUE
    /\ Goto(t, [frame[t] EXCEPT !.log = Logged(t, Call("startRouteConfigSyncer", <<>>, TRUE))],
            "init_conn")
    /\ UNCHANGED <<remoteEndpoints, isGateway, mutex, natRules, kernelRules, expected, anyError,
                   cableRoutingInterface, gatewayRouteController, nonGatewayRouteController, hist>>

\* lines 220-225
Init_ConnectionHandler(t) ==
    /\ pc[t] = "init_conn"
    /\ LET f(ok) == [frame[t] EXCEPT !.log = Logged(t, Call("initClients", <<>>, ok))]
       IN  \/ Ret(t, f(FALSE), "error getting connection handler to connect to OvnDB")
           \/ Goto(t, f(TRUE), "init_gw")
    /\ UNCHANGED <<remoteEndpoints, isGateway, mutex, natRules, kernelRules, expected, anyError, startup, hist>>

\* lines 227-236
Init_GatewayRouteController(t) ==
    /\ pc[t] = "init_gw"
    /\ LET f(ok) == [frame[t] EXCEPT !.log = Logged(t, Call("NewGatewayRouteController", <<>>, ok))]
       IN  \/ /\ Ret(t, f(FALSE), "NewGatewayRouteController returned error")
              /\ UNCHANGED gatewayRouteController
           \/ /\ gatewayRouteController' = TRUE
              /\ Goto(t, f(TRUE), "init_nongw")
    /\ UNCHANGED <<remoteEndpoints, isGateway, mutex, natRules, kernelRules, expected, anyError,
                   cableRoutingInterface, nonGatewayRouteController, syncerStarted, hist>>

\* lines 238-245
Init_NonGatewayRouteController(t) ==
    /\ pc[t] = "init_nongw"
    /\ LET f(ok) == [frame[t] EXCEPT !.log = Logged(t, Call("NewNonGatewayRouteController", <<>>, ok))]
       IN  \/ /\ Ret(t, f(FALSE), "NewNonGatewayRouteController returned error")
              /\ UNCHANGED nonGatewayRouteController
           \/ /\ nonGatewayRouteController' = TRUE
              /\ Ret(t, f(TRUE), "nil")
    /\ UNCHANGED <<remoteEndpoints, isGateway, mutex, natRules, kernelRules, expected, anyError,
                   cableRoutingInterface, gatewayRouteController, syncerStarted, hist>>

\* -------------------------------------------------- LocalEndpointCreated
\* endpoint.Spec.Backend: the wireguard driver and another one
Backends == {"wireguard", "libreswan"}
\* the interface of wireguard.DefaultDeviceName, and the one of the default route
WireguardInterface == "wireguard.DefaultDeviceName"
DefaultGatewayInterface == "default-gateway-interface"

\* lines 249-262: the interface lookup, before the lock.  A failed wireguard
\* lookup is returned; a failed default-gateway lookup is logger.Fatalf, which
\* ends the process and with it every goroutine.
LocalEndpointCreated(t, backend) ==
    /\ pc[t] = "idle"
    /\ LET f == [EmptyFrame EXCEPT !.method = "LocalEndpointCreated", !.backend = backend]
       IN  IF backend = "wireguard"
           THEN \/ Ret(t, [f EXCEPT !.log = <<Call("InterfaceByName", <<>>, FALSE)>>],
                       "Wireguard interface not found on the node")
                \/ Goto(t, [f EXCEPT !.log = <<Call("InterfaceByName", <<>>, TRUE)>>,
                                     !.iface = WireguardInterface], "local_lock")
           ELSE \/ /\ pc' = [u \in Threads |-> "exit"]
                   /\ frame' = [frame EXCEPT ![t] =
                          [f EXCEPT !.log = <<Call("GetDefaultGatewayInterface", <<>>, FALSE)>>]]
                \/ Goto(t, [f EXCEPT !.log = <<Call("GetDefaultGatewayInterface", <<>>, TRUE)>>,
                                     !.iface = DefaultGatewayInterface], "local_lock")
    /\ UNCHANGED <<remoteEndpoints, isGateway, mutex, natRules, kernelRules, expected, anyError, startup, hist>>

\* mutant: the assignment is made without taking the mutex
Local_Lock_Skip(t) ==
    /\ pc[t] = "local_lock"
    /\ Goto(t, frame[t], "local_set")
    /\ UNCHANGED <<remoteEndpoints, isGateway, mutex, natRules, kernelRules, expected, anyError, startup, hist>>

\* lines 264-265
Local_Lock(t) ==
    /\ pc[t] = "local_lock"
    /\ mutex = 0
    /\ mutex' = t
    /\ Goto(t, frame[t], "local_set")
    /\ UNCHANGED <<remoteEndpoints, isGateway, natRules, kernelRules, expected, anyError, startup, hist>>

\* mutant: the interface is cached by the first call only
Local_Set_Once(t) ==
    /\ pc[t] = "local_set"
    /\ cableRoutingInterface' = IF cableRoutingInterface = "nil" THEN frame[t].iface
                                ELSE cableRoutingInterface
    /\ Ret(t, frame[t], "nil")
    /\ UNCHANGED <<remoteEndpoints, isGateway, mutex, natRules, kernelRules, expected, anyError,
                   gatewayRouteController, nonGatewayRouteController, syncerStarted, hist>>

\* lines 267-269
Local_Set(t) ==
    /\ pc[t] = "local_set"
    /\ cableRoutingInterface' = frame[t].iface
    /\ Ret(t, frame[t], "nil")
    /\ UNCHANGED <<remoteEndpoints, isGateway, mutex, natRules, kernelRules, expected, anyError,
                   gatewayRouteController, nonGatewayRouteController, syncerStarted, hist>>

\* ---------------------------------------------------------------- return
\* the deferred ovn.mutex.Unlock() and the return to the event framework
Return(t) ==
    /\ pc[t] = "ret"
    /\ mutex' = IF mutex = t THEN 0 ELSE mutex
    /\ anyError' = (anyError \/ frame[t].err # "nil")
    /\ pc' = [pc EXCEPT ![t] = "idle"]
    /\ frame' = [frame EXCEPT ![t] = EmptyFrame]
    /\ hist' = AtReturn(t)
    /\ UNCHANGED <<remoteEndpoints, isGateway, natRules, kernelRules, expected, startup>>

\* the endpoint and gateway-transition callbacks
NextHandler ==
    \E t \in Threads :
        \/ \E e \in Endpoint : RemoteEndpointCreated(t, e)
        \/ Created_Set(t)
        \/ Created_UpdateHostNetwork(t)
        \/ Created_AddNoMasquerade(t)
        \/ Created_UpdateGateway(t)
        \/ \E e \in Endpoint : RemoteEndpointUpdated(t, e)
        \/ Updated_Set(t)
        \/ Updated_UpdateHostNetwork(t)
        \/ Updated_UpdateGateway(t)
        \/ \E e \in Endpoint : RemoteEndpointRemoved(t, e)
        \/ Removed_Delete(t)
        \/ Removed_UpdateHostNetwork(t)
        \/ Removed_RemoveNoMasquerade(t)
        \/ Removed_UpdateGateway(t)
        \/ TransitionToNonGateway(t)
        \/ ToNonGateway_SetFlag(t)
        \/ ToNonGateway_NextEndpoint(t)
        \/ ToNonGateway_RemoveNoMasquerade(t)
        \/ ToNonGateway_CleanupGateway(t)
        \/ TransitionToGateway(t)
        \/ ToGateway_SetFlag(t)
        \/ ToGateway_NextEndpoint(t)
        \/ ToGateway_AddNoMasquerade(t)
        \/ ToGateway_UpdateGateway(t)
        \/ Return(t)

\* the uninstall alone: Stop called from either goroutine
NextStop ==
    \E t \in Threads :
        \/ \E u \in BOOLEAN : Stop(t, u)
        \/ Stop_DelInternalPort(t)
        \/ Stop_DelBridge(t)
        \/ cleanupRoutes_RuleList(t)
        \/ cleanupRoutes_Loop(t)
        \/ cleanupRoutes_Return(t)
        \/ Stop_FlushInterCluster(t)
        \/ Stop_FlushHostNetwork(t)
        \/ Stop_ChainOp(t)
        \/ Stop_Return(t)
        \/ Return(t)

\* Handler.Init
NextInit ==
    \E t \in Threads :
        \/ HandlerInit(t)
        \/ Init_IPtablesChains(t)
        \/ Init_StartRouteConfigSyncer(t)
        \/ Init_ConnectionHandler(t)
        \/ Init_GatewayRouteController(t)
        \/ Init_NonGatewayRouteController(t)
        \/ Return(t)

\* Handler.LocalEndpointCreated
NextLocal ==
    \E t \in Threads :
        \/ \E b \in Backends : LocalEndpointCreated(t, b)
        \/ Local_Lock(t)
        \/ Local_Set(t)
        \/ Return(t)

\* the callbacks and Stop, from any goroutine
Next == NextHandler \/ NextStop

Spec == Init /\ [][Next]_vars

\* the callbacks without a concurrent uninstall
SpecHandler == Init /\ [][NextHandler]_vars

\* the uninstall on a node with any rule list
SpecStop == InitStop /\ [][NextStop]_vars

\* the initialization
SpecInit == Init /\ [][NextInit]_vars

\* the local endpoint events
SpecLocal == Init /\ [][NextLocal]_vars

\* the callbacks, with a creation and the removal that follows it being followed
InitSymmetry ==
    /\ NewHandler
    /\ kernelRules = NodeRules
    /\ hist = HistFree("symmetry")

SpecSymmetry == InitSymmetry /\ [][NextHandler]_vars

\* the callbacks, with a failed call and its redeliveries being followed
InitRetry ==
    /\ NewHandler
    /\ kernelRules = NodeRules
    /\ hist = HistFree("retry")

SpecRetry == InitRetry /\ [][NextHandler]_vars

\* the local and remote endpoint events and the transitions
SpecEvents == Init /\ [][NextHandler \/ NextLocal]_vars

\* ------------------------------------------------------------ properties
Quiescent == \A t \in Threads : pc[t] = "idle"

Accepted(e) == ~OverlappingSubnets(ServiceCIDR, ClusterCIDR, e.Subnets)

\* t is about to return from a call of the given method
Returning(t, method) == pc[t] = "ret" /\ frame[t].method = method

\* C1: when no call is in progress and no call has returned an error, the
\* applied NAT-exemption rules are exactly the subnets of the current remote
\* endpoints in gateway role, and none otherwise.
C1_FlagAndRulesAgree ==
    (Quiescent /\ ~anyError) =>
        natRules = (IF isGateway THEN AllSubnets(remoteEndpoints) ELSE {})

\* C4: a successful RemoteEndpointUpdated of an accepted endpoint in gateway
\* role leaves a NAT-exemption rule applied for every subnet of the endpoint.
C4_UpdatedAddsNoMasquerade ==
    \A t \in Threads :
        (/\ Returning(t, "RemoteEndpointUpdated")
         /\ frame[t].err = "nil"
         /\ Accepted(frame[t].endpoint)
         /\ isGateway)
            => Range(frame[t].endpoint.Subnets) \subseteq natRules

NatOps == {"addNoMasqueradeIPTables", "removeNoMasqueradeIPTables"}
Transitions == {"TransitionToGateway", "TransitionToNonGateway"}

\* the number of entries of a log that satisfy Test
CountOps(log, Test(_)) == Cardinality({k \in 1..Len(log) : Test(log[k])})

\* how many endpoints of the map advertise subnet s, counting repetitions
Advertised(m, s) ==
    Cardinality(UNION {{<<n, k>> : k \in {j \in 1..Len(m[n].Subnets) : m[n].Subnets[j] = s}} :
                          n \in DOMAIN m})

\* the per-subnet operation a transition issues
TransitionOp(method) ==
    IF method = "TransitionToGateway" THEN "addNoMasqueradeIPTables"
    ELSE "removeNoMasqueradeIPTables"

\* a transition that went through: one operation per subnet of every endpoint
OneOpPerSubnet(t) ==
    LET log == frame[t].log
    IN  /\ \A s \in AllSubnets(remoteEndpoints) \cup {log[k].arg : k \in 1..Len(log) - 1} :
              LET IsOp(e) == e.op = TransitionOp(frame[t].method) /\ e.arg = s
              IN  CountOps(log, IsOp) = Advertised(remoteEndpoints, s)
        /\ LET IsNat(e) == e.op \in NatOps
           IN  CountOps(log, IsNat) = Len(log) - 1

TransitionReturned(t) ==
    /\ pc[t] = "ret"
    /\ frame[t].method \in Transitions
    /\ frame[t].err \in {"nil", "updateGatewayDataplane returned error",
                         "cleanupGatewayDataplane returned error"}

\* t has issued a per-subnet operation in the transition it is running
IssuedNatOp(t) ==
    /\ frame[t].method \in Transitions
    /\ \E k \in 1..Len(frame[t].log) : frame[t].log[k].op \in NatOps

NatOpFailed(t) ==
    /\ frame[t].method \in Transitions
    /\ \E k \in 1..Len(frame[t].log) :
           frame[t].log[k].op \in NatOps /\ ~frame[t].log[k].ok

\* the subnets of the operations that went through before the failing one
AppliedBefore(t) == {frame[t].log[k].arg : k \in 1..Len(frame[t].log) - 1}

\* C9: a transition whose per-subnet operation fails returns that error at
\* once: the failed operation is the last call it made (nothing for the other
\* subnets, no gateway reconciliation or cleanup), what it had applied stays
\* applied, and returning releases the lock.
C9_AbortInv ==
    \A t \in Threads :
        NatOpFailed(t) =>
            LET log == frame[t].log
            IN  /\ pc[t] = "ret"
                /\ frame[t].err = (IF frame[t].method = "TransitionToGateway"
                                   THEN "error adding no-masquerade rules"
                                   ELSE "error removing no-masquerade rules")
                /\ \A k \in 1..Len(log) : log[k].op = TransitionOp(frame[t].method)
                /\ \A k \in 1..Len(log) - 1 : log[k].ok
                /\ frame[t].cur # <<>>
                /\ Head(frame[t].cur) = log[Len(log)].arg
                /\ mutex = t
                /\ IF frame[t].method = "TransitionToGateway"
                   THEN AppliedBefore(t) \subseteq natRules
                   ELSE AppliedBefore(t) \cap natRules = {}

C9_AbortReleases ==
    \A t \in Threads :
        (NatOpFailed(t) /\ pc'[t] = "idle") => mutex' = 0

C9_TransitionAborts == []C9_AbortInv /\ [][C9_AbortReleases]_vars

\* a transition into gateway role that fails on its second add, with subnets
\* still to go
C9_Witness ==
    \E t \in Threads :
        /\ NatOpFailed(t)
        /\ frame[t].method = "TransitionToGateway"
        /\ Len(frame[t].log) = 2
        /\ frame[t].pending # {}
        /\ natRules # {}

\* the calls of Stop(true) other than the per-rule deletions (lines 36-64)
StopOps ==
    << Op("DelInternalPort", <<>>), Op("DelBridge", <<>>), Op("RuleList", <<>>),
       Op("FlushRouteTable", RouteAgentInterClusterNetworkTableID),
       Op("FlushRouteTable", RouteAgentHostNetworkTableID) >> \o StopChainOps

\* how often a log holds the call op
Attempts(log, op) ==
    LET Is(e) == e.op = op.op /\ e.arg = op.arg
    IN  CountOps(log, Is)

\* C3: Stop(true) returns no error and has attempted each of its operations
\* exactly once, whichever of them failed.
C3_StopRunsToCompletion ==
    \A t \in Threads :
        (Returning(t, "Stop") /\ frame[t].uninstall) =>
            /\ frame[t].err = "nil"
            /\ \A k \in 1..Len(StopOps) : Attempts(frame[t].log, StopOps[k]) = 1

\* an uninstall whose rule cleanup failed on the first rule (the rule is still
\* in the kernel) and that went on to the flushes and the chains
C3_Witness ==
    \E t \in Threads :
        /\ Returning(t, "Stop")
        /\ frame[t].uninstall
        /\ frame[t].rules # <<>>
        /\ OwnsTable(frame[t].rules[1])
        /\ kernelRules = frame[t].rules
        /\ \A u \in Threads \ {t} : pc[u] = "idle"
        /\ Len(frame[t].log) = Len(StopOps) + 1

\* C8: when the listing went through, every listed rule of one of the two
\* tables gets a deletion attempt.
C8_EveryOwnedRuleAttempted ==
    \A t \in Threads :
        (Returning(t, "Stop") /\ frame[t].uninstall /\ frame[t].i >= 1) =>
            \A k \in 1..Len(frame[t].rules) :
                OwnsTable(frame[t].rules[k]) =>
                    \E j \in 1..Len(frame[t].log) :
                        frame[t].log[j].op = "RuleDel" /\ frame[t].log[j].arg = k

Upserts == {"RemoteEndpointCreated", "RemoteEndpointUpdated"}

\* t is returning from a create or update it rejected for overlapping subnets
Rejected(t) ==
    /\ pc[t] = "ret"
    /\ frame[t].method \in Upserts
    /\ ~Accepted(frame[t].endpoint)

\* C5 as stated: once an overlapping create or update has been handled, the
\* map holds no endpoint of that name.
C5_RejectedNameAbsent ==
    \A t \in Threads :
        Rejected(t) => frame[t].endpoint.Name \notin DOMAIN remoteEndpoints

\* C5 amended: once an overlapping create or update has been handled, the map
\* does not hold the endpoint of the event; it holds an endpoint of that name
\* only when an accepted event stored it, and then one without overlap.
C5_RejectedValueAbsent ==
    \A t \in Threads :
        Rejected(t) =>
            LET name == frame[t].endpoint.Name
            IN  name \in DOMAIN remoteEndpoints =>
                    /\ remoteEndpoints[name] # frame[t].endpoint
                    /\ Accepted(remoteEndpoints[name])

\* an overlapping update of a name that an earlier event had stored
C5_Witness ==
    \E t \in Threads :
        /\ Rejected(t)
        /\ frame[t].method = "RemoteEndpointUpdated"
        /\ frame[t].endpoint.Name \in DOMAIN remoteEndpoints

\* C6: handling an overlapping create or update is one step that returns nil
\* without a call and without the lock, and neither it nor its return changes
\* the map, the flag, the kernel state or the mutex.
C6_RejectedStep ==
    \A t \in Threads :
        /\ (/\ pc[t] = "idle"
            /\ pc'[t] # "idle"
            /\ frame'[t].method \in Upserts
            /\ ~Accepted(frame'[t].endpoint))
              => /\ pc'[t] = "ret"
                 /\ frame'[t].err = "nil"
                 /\ frame'[t].log = <<>>
                 /\ UNCHANGED <<remoteEndpoints, isGateway, natRules, kernelRules, mutex>>
        /\ (Rejected(t) /\ pc'[t] = "idle")
              => UNCHANGED <<remoteEndpoints, isGateway, natRules, kernelRules, mutex, anyError>>

C6_RejectedChangesNothing == [][C6_RejectedStep]_vars

\* an overlapping create handled while the other goroutine holds the lock
C6_Witness ==
    \E t \in Threads :
        /\ Rejected(t)
        /\ frame[t].method = "RemoteEndpointCreated"
        /\ mutex \notin {0, t}
        /\ remoteEndpoints # EmptyMap

\* C7: except between a callback's Lock and its write of the map, the map is
\* the last-writer-wins map of the accepted events in the order they took the
\* lock, whatever failed.
C7_LastWriterWins ==
    (\A t \in Threads : pc[t] \notin {"created_set", "updated_set", "removed_delete"})
        => remoteEndpoints = expected

\* a removal that failed in reconciliation after earlier calls had failed, with
\* the name gone and another endpoint left
C7_Witness ==
    \E t \in Threads :
        /\ Returning(t, "RemoteEndpointRemoved")
        /\ frame[t].err # "nil"
        /\ anyError
        /\ frame[t].endpoint.Name \notin DOMAIN remoteEndpoints
        /\ remoteEndpoints # EmptyMap

\* the steps of the endpoint and transition callbacks from which they call into
\* the kernel, and those of Stop(true)
CallbackKernelPcs ==
    {"created_host", "created_nat", "updated_host", "updated_gw",
     "removed_host", "removed_nat", "tn_range", "tg_range"}
StopKernelPcs ==
    {"stop_port", "stop_bridge", "stop_rulelist", "stop_ruleloop",
     "stop_flush_inter", "stop_flush_host", "stop_chains"}

\* C10 as stated: a goroutine that is making the kernel calls of a lifecycle
\* method, Stop(true) included, holds the Handler lock.
C10_KernelCallsUnderLock ==
    \A t \in Threads :
        pc[t] \in CallbackKernelPcs \cup StopKernelPcs => mutex = t

\* C10 amended: a goroutine that is making the kernel calls of an endpoint or
\* transition callback holds the Handler lock, so no two goroutines are making
\* such calls at once; this does not extend to Stop(true).
C10_CallbacksUnderLock ==
    /\ \A t \in Threads : pc[t] \in CallbackKernelPcs => mutex = t
    /\ \A t, u \in Threads :
           (pc[t] \in CallbackKernelPcs /\ pc[u] \in CallbackKernelPcs) => t = u

\* a create that holds the lock and has added a NAT-exemption rule while the
\* other goroutine is in the middle of the teardown of Stop(true)
C10_Witness ==
    \E t, u \in Threads :
        /\ pc[t] \in StopKernelPcs
        /\ frame[t].log # <<>>
        /\ pc[u] = "created_nat"
        /\ mutex = u
        /\ Len(frame[u].log) >= 2

Callbacks == Upserts \cup {"RemoteEndpointRemoved"} \cup Transitions

\* t is between the Lock of one of the five callbacks and its return
InLockedSection(t) ==
    \/ pc[t] \in {"created_set", "updated_set", "removed_delete", "tn_flag", "tg_flag"}
                    \cup CallbackKernelPcs
    \/ pc[t] = "ret" /\ frame[t].method \in Callbacks /\ ~Rejected(t)

C11_OneInLockedSection ==
    \A t, u \in Threads :
        /\ InLockedSection(t) => mutex = t
        /\ (InLockedSection(t) /\ InLockedSection(u)) => t = u

C11_WritesUnderLock ==
    /\ (\/ remoteEndpoints' # remoteEndpoints
        \/ isGateway' # isGateway
        \/ cableRoutingInterface' # cableRoutingInterface)
          => /\ mutex # 0
             /\ mutex' = mutex
             /\ pc'[mutex] # pc[mutex]
    /\ \A t \in Threads : IssuedNatOp(t) => remoteEndpoints' = remoteEndpoints

\* C11: remoteEndpoints, isGateway and cableRoutingInterface change only in a
\* step of the goroutine that holds the mutex; at most one goroutine is inside
\* the locked section of a callback; and from the first per-subnet operation
\* of a transition to its return the map does not change.
C11_MutexGuardsState == []C11_OneInLockedSection /\ [][C11_WritesUnderLock]_vars

\* a transition that has issued a per-subnet operation while the other
\* goroutine, with its interface resolved, waits for the mutex
C11_Witness ==
    \E t, u \in Threads :
        /\ IssuedNatOp(t)
        /\ pc[t] \in {"tg_range", "tn_range"}
        /\ mutex = t
        /\ pc[u] = "local_lock"
        /\ remoteEndpoints # EmptyMap

EndpointEvents == Upserts \cup {"RemoteEndpointRemoved"}

\* C12: an accepted create, update or removal has called host-network
\* reconciliation first, in either role; and a call that has run gateway
\* reconciliation finds the flag true.
C12_ReconciliationByRole ==
    \A t \in Threads :
        /\ (pc[t] = "ret" /\ frame[t].method \in EndpointEvents /\ ~Rejected(t))
              => /\ frame[t].log # <<>>
                 /\ frame[t].log[1].op = "updateHostNetworkDataplane"
        /\ (\E k \in 1..Len(frame[t].log) : frame[t].log[k].op = "updateGatewayDataplane")
              => isGateway

\* an update in gateway role that ran both reconciliations
C12_Witness ==
    \E t \in Threads :
        /\ Returning(t, "RemoteEndpointUpdated")
        /\ frame[t].err = "nil"
        /\ isGateway
        /\ Len(frame[t].log) = 2
        /\ frame[t].log[2].op = "updateGatewayDataplane"

\* the order of section 4.3: port, bridge, rule cleanup, the two flushes, then
\* clear, unlink and delete for the forward chain and for the post-routing chain
TeardownOrder ==
    << Op("DelInternalPort", <<>>),
       Op("DelBridge", <<>>),
       Op("RuleList", <<>>),
       Op("FlushRouteTable", RouteAgentInterClusterNetworkTableID),
       Op("FlushRouteTable", RouteAgentHostNetworkTableID),
       Op("ClearChain", <<"constants.FilterTable", forwardingSubmarinerFWDChain>>),
       Op("Delete", <<"constants.FilterTable", "constants.ForwardChain", forwardingSubmarinerFWDChain>>),
       Op("DeleteChain", <<"constants.FilterTable", forwardingSubmarinerFWDChain>>),
       Op("ClearChain", <<"constants.NATTable", SmPostRoutingChain>>),
       Op("Delete", <<"constants.NATTable", "constants.PostRoutingChain", SmPostRoutingChain>>),
       Op("DeleteChain", <<"constants.NATTable", SmPostRoutingChain>>) >>

NotRuleDel(e) == e.op # "RuleDel"

\* C13: at every moment of Stop(true) the calls made so far, the per-rule
\* deletions aside, are the first calls of the teardown order, in that order,
\* and all of them at the return; a rule deletion comes after the listing and
\* before the first flush.
C13_TeardownOrder ==
    \A t \in Threads :
        (frame[t].method = "Stop" /\ frame[t].uninstall) =>
            LET log == frame[t].log
                steps == SelectSeq(log, NotRuleDel)
            IN  /\ Len(steps) <= Len(TeardownOrder)
                /\ \A k \in 1..Len(steps) :
                       steps[k].op = TeardownOrder[k].op /\ steps[k].arg = TeardownOrder[k].arg
                /\ pc[t] = "ret" => Len(steps) = Len(TeardownOrder)
                /\ \A j \in 1..Len(log) :
                       log[j].op = "RuleDel" =>
                           /\ \E k \in 1..j - 1 : log[k].op = "RuleList"
                           /\ \A k \in 1..j - 1 : log[k].op # "FlushRouteTable"

\* an uninstall that deleted two rules on its way, at its return
C13_Witness ==
    \E t \in Threads :
        /\ Returning(t, "Stop")
        /\ frame[t].uninstall
        /\ Len(frame[t].log) = Len(TeardownOrder) + 2
        /\ kernelRules = <<>>

InStopFalse(f) == f.method = "Stop" /\ ~f.uninstall

\* a Stop(false) is only ever at its return, with a nil error and no call made
C14_NoTeardownCall ==
    \A t \in Threads :
        InStopFalse(frame[t]) =>
            pc[t] = "ret" /\ frame[t].err = "nil" /\ frame[t].log = <<>>

\* the steps of a Stop(false), its call and its return, change no handler or
\* kernel state
C14_StateUntouched ==
    \A t \in Threads :
        (pc'[t] # pc[t] /\ (InStopFalse(frame'[t]) \/ InStopFalse(frame[t]))) =>
            UNCHANGED <<remoteEndpoints, isGateway, mutex, natRules, kernelRules, startup>>

\* C14: Stop(false) returns nil at once, makes no teardown call and leaves the
\* handler's state and the kernel's state as they were.
C14_StopFalseIsNoOp == []C14_NoTeardownCall /\ [][C14_StateUntouched]_vars

\* a Stop(false) at its return on a gateway that holds an endpoint and rules
C14_Witness ==
    \E t \in Threads :
        /\ Returning(t, "Stop")
        /\ ~frame[t].uninstall
        /\ isGateway
        /\ DOMAIN remoteEndpoints # {}
        /\ natRules # {}
        /\ kernelRules = NodeRules

\* the steps of Init in the order of section 4.1 of the initialization
InitOrder ==
    << "LegacyCleanup", "initIPtablesChains", "startRouteConfigSyncer", "initClients",
       "NewGatewayRouteController", "NewNonGatewayRouteController" >>

\* the steps whose failure Init returns
InitFallible ==
    {"initIPtablesChains", "initClients", "NewGatewayRouteController", "NewNonGatewayRouteController"}

\* the steps made so far are the first steps of the order, nothing follows a
\* failed step, and the error returned is non-nil exactly when the last step
\* made was a fallible one that failed; without a failure all six were made
C17_StepsInOrder ==
    \A t \in Threads :
        frame[t].method = "Init" =>
            LET log == frame[t].log
            IN  /\ Len(log) <= Len(InitOrder)
                /\ \A k \in 1..Len(log) : log[k].op = InitOrder[k]
                /\ \A k \in 1..Len(log) :
                       ~log[k].ok => (k = Len(log) /\ log[k].op \in InitFallible /\ pc[t] = "ret")
                /\ pc[t] = "ret" =>
                       /\ frame[t].err # "nil" <=> ~log[Len(log)].ok
                       /\ frame[t].err = "nil" => Len(log) = Len(InitOrder)

\* the syncer is started and a controller is stored only by an Init whose
\* earlier steps all succeeded
C17_EffectsAfterSuccess ==
    /\ syncerStarted' # syncerStarted =>
           \E t \in Threads :
               /\ pc[t] = "init_syncer"
               /\ Len(frame[t].log) = 2 /\ frame[t].log[2].ok
    /\ gatewayRouteController' # gatewayRouteController =>
           \E t \in Threads :
               /\ pc[t] = "init_gw"
               /\ Len(frame[t].log) = 4 /\ \A k \in 1..4 : frame[t].log[k].ok
               /\ Len(frame'[t].log) = 5 /\ frame'[t].log[5].ok
    /\ nonGatewayRouteController' # nonGatewayRouteController =>
           \E t \in Threads :
               /\ pc[t] = "init_nongw"
               /\ Len(frame[t].log) = 5 /\ \A k \in 1..5 : frame[t].log[k].ok
               /\ Len(frame'[t].log) = 6 /\ frame'[t].log[6].ok

\* C17: Init makes its steps in the order legacy cleanup, chain setup, syncer
\* start, connection, gateway controller, non-gateway controller; it returns
\* an error exactly when one of the four fallible steps fails, and after a
\* failure no later step is made and none of its effects takes place.
C17_InitOrderAndErrors == []C17_StepsInOrder /\ [][C17_EffectsAfterSuccess]_vars

\* an Init that returns the chain-setup failure with no syncer started and no
\* controller stored
C17_Witness ==
    \E t \in Threads :
        /\ Returning(t, "Init")
        /\ frame[t].err = "initIPtablesChains returned error"
        /\ Len(frame[t].log) = 2
        /\ ~syncerStarted
        /\ ~gatewayRouteController
        /\ ~nonGatewayRouteController

\* the interface LocalEndpointCreated resolves for a backend, lines 252-262
ResolvedInterface(backend) ==
    IF backend = "wireguard" THEN WireguardInterface ELSE DefaultGatewayInterface

\* a LocalEndpointCreated at its return has either failed the wireguard lookup,
\* or holds the lock and has stored the interface of its backend
C18_ReturnedCall ==
    \A t \in Threads :
        Returning(t, "LocalEndpointCreated") =>
            IF frame[t].err = "nil"
            THEN /\ mutex = t
                 /\ cableRoutingInterface = ResolvedInterface(frame[t].backend)
            ELSE /\ frame[t].backend = "wireguard"
                 /\ frame[t].err = "Wireguard interface not found on the node"
                 /\ mutex # t

\* cableRoutingInterface changes only in the assignment of a call whose lookup
\* succeeded, and the step of a failed lookup leaves it as it was
C18_ChangedBySuccessOnly ==
    /\ cableRoutingInterface' # cableRoutingInterface =>
           \E t \in Threads :
               /\ pc[t] = "local_set" /\ pc'[t] = "ret"
               /\ frame'[t].err = "nil"
               /\ cableRoutingInterface' = ResolvedInterface(frame[t].backend)
    /\ \A t \in Threads :
           (pc[t] = "idle" /\ pc'[t] = "ret" /\ frame'[t].err # "nil") =>
               cableRoutingInterface' = cableRoutingInterface

\* C18: every LocalEndpointCreated whose lookup succeeds stores the interface
\* resolved for its backend, replacing the one cached before; a wireguard
\* lookup that fails returns an error and leaves cableRoutingInterface as it
\* was; nothing else changes it.
C18_SetBySuccessfulCall == []C18_ReturnedCall /\ [][C18_ChangedBySuccessOnly]_vars

\* a second call has stored its own interface while a failed wireguard lookup
\* is at its return
C18_Witness ==
    \E t, u \in Threads :
        /\ Returning(t, "LocalEndpointCreated")
        /\ frame[t].err = "nil"
        /\ frame[t].backend = "libreswan"
        /\ cableRoutingInterface = DefaultGatewayInterface
        /\ Returning(u, "LocalEndpointCreated")
        /\ frame[u].err # "nil"
        /\ anyError

\* C18 as stated: once cached, the interface is never changed
C18_SetOnce ==
    [][cableRoutingInterface # "nil" => cableRoutingInterface' = cableRoutingInterface]_vars

\* a table that is neither of the two the handler reserves
ForeignTable(table) ==
    table \notin {RouteAgentInterClusterNetworkTableID, RouteAgentHostNetworkTableID}

\* the rules of the other tables, in the order the kernel holds them
ForeignRules(rules) == SelectSeq(rules, ForeignTable)

\* the listing of this Stop has been tried and has failed
ListingFailed(t) ==
    /\ frame[t].method = "Stop"
    /\ frame[t].i = 0
    /\ \E k \in 1..Len(frame[t].log) : frame[t].log[k].op = "RuleList"

\* a deletion is only ever attempted for a listed rule of one of the two
\* reserved tables; after a failed listing none is attempted, and the Stop
\* still makes every other teardown call before it returns
C19_DeletionsOwnedOnly ==
    \A t \in Threads :
        frame[t].method = "Stop" =>
            /\ \A k \in 1..Len(frame[t].log) :
                   frame[t].log[k].op = "RuleDel" =>
                       /\ frame[t].log[k].arg \in 1..Len(frame[t].rules)
                       /\ ~ForeignTable(frame[t].rules[frame[t].log[k].arg])
            /\ ListingFailed(t) =>
                   /\ \A k \in 1..Len(frame[t].log) : frame[t].log[k].op # "RuleDel"
                   /\ pc[t] = "ret" => Len(frame[t].log) = Len(TeardownOrder)

\* no step changes the rules of the other tables
C19_ForeignRulesKept == ForeignRules(kernelRules') = ForeignRules(kernelRules)

\* C19: the rule cleanup of Stop(true) never deletes a rule of a table other
\* than the inter-cluster and the host-network table, so every such rule is
\* still there afterwards; when the listing fails no deletion is attempted and
\* the remaining teardown calls are still made.
C19_OtherTablesUntouched == []C19_DeletionsOwnedOnly /\ [][C19_ForeignRulesKept]_vars

\* one uninstall has deleted the reserved rule next to a rule of the main
\* table, which is still there, and another one has returned after its
\* listing failed
C19_Witness ==
    \E t, u \in Threads :
        /\ Returning(t, "Stop")
        /\ frame[t].rules = <<RouteAgentInterClusterNetworkTableID, OtherTableID>>
        /\ \E k \in 1..Len(frame[t].log) : frame[t].log[k].op = "RuleDel"
        /\ kernelRules = <<OtherTableID>>
        /\ Returning(u, "Stop")
        /\ ListingFailed(u)

\* C15: in gateway role, when a RemoteEndpointCreated(e) for a name not in the
\* set has returned no error and the RemoteEndpointRemoved(e) that follows it
\* returns no error, the set and the applied NAT-exemption rules are those of
\* before the creation.
C15_RemovalRestores ==
    \A t \in Threads :
        (/\ hist.phase = "removing"
         /\ Returning(t, "RemoteEndpointRemoved")
         /\ mutex = t
         /\ frame[t].err = "nil")
        => /\ remoteEndpoints = hist.set
           /\ natRules = hist.rules

\* the part of C15 that holds: the set is the one of before the creation
C15_SetRestored ==
    \A t \in Threads :
        (/\ hist.phase = "removing"
         /\ Returning(t, "RemoteEndpointRemoved")
         /\ mutex = t
         /\ frame[t].err = "nil")
        => remoteEndpoints = hist.set

\* the calls followed are the four of Retried, and the state recorded for a
\* call is the one it leaves when its first attempt returns no error
C16_FirstAttempt ==
    \A t \in Threads :
        (hist.phase = "first" /\ pc[t] = "ret" /\ mutex = t /\ frame[t].err = "nil") =>
            /\ frame[t].method \in Retried
            /\ remoteEndpoints = hist.set
            /\ isGateway = hist.gw
            /\ natRules = hist.rules

\* C16: when a RemoteEndpointCreated, RemoteEndpointRemoved, TransitionToGateway
\* or TransitionToNonGateway call has returned an error and the same call,
\* delivered again with no other call taking the lock in between, returns no
\* error, the set, the role flag and the applied NAT-exemption rules are those
\* the first attempt would have left had it returned no error.
C16_RetryConverges ==
    /\ C16_FirstAttempt
    /\ \A t \in Threads :
           (hist.phase = "retry" /\ pc[t] = "ret" /\ mutex = t /\ frame[t].err = "nil") =>
               /\ frame[t].method = hist.method
               /\ frame[t].endpoint = hist.endpoint
               /\ remoteEndpoints = hist.set
               /\ isGateway = hist.gw
               /\ natRules = hist.rules

\* a removal in gateway role whose first attempt failed after it had removed a
\* rule, at the return of its redelivery, with another endpoint left in the set
C16_Witness ==
    \E t \in Threads :
        /\ hist.phase = "retry"
        /\ Returning(t, "RemoteEndpointRemoved")
        /\ mutex = t
        /\ frame[t].err = "nil"
        /\ isGateway
        /\ DOMAIN remoteEndpoints # {}
        /\ \E k \in 1..Len(frame[t].log) : frame[t].log[k].op = "removeNoMasqueradeIPTables"

====
